---- MODULE Spec2Model ----
(***************************************************************************)
(* TwilioAudioInterface (src/twilio_audio_interface.py): the adapter       *)
(* between a Twilio media-stream websocket and the conversation engine.    *)
(*                                                                         *)
(* Two execution contexts act on one adapter object:                       *)
(*   - the caller's thread (the conversation engine) calls start, stop,    *)
(*     output and interrupt;                                               *)
(*   - the transport's asyncio event loop runs handle_twilio_message and   *)
(*     the coroutines output/interrupt schedule on it with                 *)
(*     run_coroutine_threadsafe.                                           *)
(* The loop runs one coroutine at a time, from its start or resumption to  *)
(* its next await; the caller's thread is preemptive, so its steps         *)
(* interleave with the loop's at every read and write of the shared fields *)
(* stream_sid and input_callback.                                          *)
(***************************************************************************)
EXTENDS Integers, Sequences, FiniteSets, TLC

\* ------------------------------------------------------------------ bounds
MaxCalls == 2          \* output()/interrupt() calls made by the caller
MaxMedia == 2          \* media envelopes handed to handle_twilio_message

\* ------------------------------------------------------------------ values
None == "None"
StreamSids == {"CA1", "CA2"}
Callbacks == {"cb1", "cb2"}
WebSocketStates == {"CONNECTING", "CONNECTED", "DISCONNECTED"}

\* Audio frames are byte sequences.
Audio == {<<1, 2>>, <<255>>}

\* Audio that names the stream id its caller sees when calling output().
CallTag(sid) == IF sid = "CA1" THEN <<1>> ELSE IF sid = "CA2" THEN <<2>> ELSE <<0>>
TagSid(audio) == IF audio = <<1>> THEN "CA1" ELSE IF audio = <<2>> THEN "CA2" ELSE None

\* Byte sequences of every length modulo 3, the empty one, and one longer
\* than a group, for the codec taken end to end.
CodecAudio == {<<>>, <<0>>, <<255, 254>>, <<77, 97, 110>>, <<251, 255, 190, 1>>}

\* Base64 text is a sequence of characters: 0..63 is a character of the
\* alphabet (by its value), 64 is the pad "=", 65 stands for any character
\* outside the alphabet ("!", "-").
AQI_pad == <<0, 16, 8, 64>>     \* "AQI="  (b"\x01\x02")
AQI_bang == <<0, 16, 8, 65>>    \* "AQI!"  (not valid base64)
FF_pad == <<63, 48, 64, 64>>    \* "/w=="  (b"\xff")

\* Python truthiness of the two optional fields.
Truthy(v) == v # None

\* --------------------------------------------------------------- the codec
\* The encoding without the padding of the last group.
RECURSIVE b64encode_nopad(_)
b64encode_nopad(b) ==
    IF Len(b) = 0 THEN <<>>
    ELSE IF Len(b) = 1 THEN
        <<b[1] \div 4, (b[1] % 4) * 16>>
    ELSE IF Len(b) = 2 THEN
        <<b[1] \div 4, (b[1] % 4) * 16 + (b[2] \div 16), (b[2] % 16) * 4>>
    ELSE
        <<b[1] \div 4, (b[1] % 4) * 16 + (b[2] \div 16),
          (b[2] % 16) * 4 + (b[3] \div 64), b[3] % 64>>
        \o b64encode_nopad(SubSeq(b, 4, Len(b)))

RECURSIVE b64encode(_)
b64encode(b) ==
    IF Len(b) = 0 THEN <<>>
    ELSE IF Len(b) = 1 THEN
        <<b[1] \div 4, (b[1] % 4) * 16, 64, 64>>
    ELSE IF Len(b) = 2 THEN
        <<b[1] \div 4, (b[1] % 4) * 16 + (b[2] \div 16), (b[2] % 16) * 4, 64>>
    ELSE
        <<b[1] \div 4, (b[1] % 4) * 16 + (b[2] \div 16),
          (b[2] % 16) * 4 + (b[3] \div 64), b[3] % 64>>
        \o b64encode(SubSeq(b, 4, Len(b)))

\* binascii.a2b_base64 without strict mode, as base64.b64decode calls it:
\* characters outside the alphabet are skipped, a complete pad sequence ends
\* the input, and a quad left incomplete is an error.
RECURSIVE a2b_base64(_, _, _, _, _, _)
a2b_base64(s, i, quad_pos, leftchar, pads, out) ==
    IF i > Len(s) THEN
        IF quad_pos # 0 THEN [ok |-> FALSE, bytes |-> <<>>]
        ELSE [ok |-> TRUE, bytes |-> out]
    ELSE IF s[i] = 64 THEN
        IF quad_pos >= 2 /\ quad_pos + pads + 1 >= 4
        THEN [ok |-> TRUE, bytes |-> out]
        ELSE a2b_base64(s, i + 1, quad_pos, leftchar,
                        IF quad_pos >= 2 THEN pads + 1 ELSE pads, out)
    ELSE IF s[i] > 64 THEN
        a2b_base64(s, i + 1, quad_pos, leftchar, pads, out)
    ELSE IF quad_pos = 0 THEN
        a2b_base64(s, i + 1, 1, s[i], 0, out)
    ELSE IF quad_pos = 1 THEN
        a2b_base64(s, i + 1, 2, s[i] % 16, 0,
                   Append(out, leftchar * 4 + (s[i] \div 16)))
    ELSE IF quad_pos = 2 THEN
        a2b_base64(s, i + 1, 3, s[i] % 4, 0,
                   Append(out, leftchar * 16 + (s[i] \div 4)))
    ELSE
        a2b_base64(s, i + 1, 0, 0, 0, Append(out, leftchar * 64 + s[i]))

b64decode(s) == a2b_base64(s, 1, 0, 0, 0, <<>>)

\* ------------------------------------------------------- inbound envelopes
Envelopes ==
    {[event |-> "start", start |-> [streamSid |-> s]] : s \in StreamSids}
    \cup {[event |-> "start", start |-> [callSid |-> "x"]]}
    \cup {[event |-> "media", media |-> [payload |-> p]] : p \in {AQI_pad, FF_pad, AQI_bang}}
    \cup {[event |-> "media", media |-> [track |-> "inbound"]]}
    \cup {[event |-> "stop"]}

\* ------------------------------------------------------------------- state
VARIABLES
    stream_sid,         \* self.stream_sid
    input_callback,     \* self.input_callback
    application_state,  \* self.websocket.application_state
    tasks,              \* the coroutines output()/interrupt() have scheduled
    loop_ready,         \* self.loop's queue of coroutines not yet started
    current,            \* the task the loop is running (0: none)
    hpc,                \* position of the loop inside handle_twilio_message
    hdata,              \* handle_twilio_message's argument, data
    audio_data,         \* handle_twilio_message's local, audio_data
    cpc,                \* position of the caller's thread
    sent,               \* the texts handed to websocket.send_text, in order
    sent_by,            \* for each of them, the task that handed it
    calls,              \* the invocations of the consumer, in order
    handled,            \* per media envelope: what handle_twilio_message did
    raised,             \* what the last handle_twilio_message call raised
    startProcessed,     \* line 83 has assigned stream_sid at least once
    stopped,            \* stop() has returned and no start was processed since
    ignoredAt           \* Len(sent), Len(calls) when an envelope that is neither
                        \* start nor media was first handled with a stream
                        \* active, a consumer registered and the websocket
                        \* connected (Never before)

vars == <<stream_sid, input_callback, application_state, tasks, loop_ready,
          current, hpc, hdata, audio_data, cpc, sent, sent_by, calls, handled,
          raised, startProcessed, stopped, ignoredAt>>

sessionVars == <<stream_sid, input_callback>>
loopVars == <<tasks, loop_ready, current>>
handlerVars == <<hpc, hdata, audio_data, handled, raised, calls>>
wireVars == <<sent, sent_by>>
ghostVars == <<startProcessed, stopped, ignoredAt>>

Never == [sent |-> -1, calls |-> -1]
NoFrame == [event |-> "unset"]
NoData == [event |-> "unset"]

LoopIdle == current = 0 /\ hpc = "idle"

\* -------------------------------------------------------------------- Init
Init ==
    /\ stream_sid = None
    /\ input_callback = None
    /\ application_state \in WebSocketStates
    /\ tasks = <<>>
    /\ loop_ready = <<>>
    /\ current = 0
    /\ hpc = "idle"
    /\ hdata = NoData
    /\ audio_data = <<>>
    /\ cpc = "idle"
    /\ sent = <<>>
    /\ sent_by = <<>>
    /\ calls = <<>>
    /\ handled = <<>>
    /\ raised = "nothing"
    /\ startProcessed = FALSE
    /\ ignoredAt = Never
    /\ stopped = FALSE

\* A coroutine as run_coroutine_threadsafe hands it to the loop. connAtCall
\* records the application_state at the call that scheduled it, until the
\* coroutine has read it itself (it is kept when that read made it skip the
\* send); result is how the coroutine ended.
NewTask(kind, audio) ==
    [kind |-> kind, audio |-> audio, pc |-> "ready", msg |-> NoFrame,
     connAtCall |-> application_state, result |-> "pending"]

Finish(t, result) ==
    /\ tasks' = [tasks EXCEPT ![t].pc = "done", ![t].msg = NoFrame,
                              ![t].connAtCall = "unset",
                              ![t].result = result]
    /\ current' = 0

\* ------------------------------------------------- the caller's thread
\* start, lines 22-24: self.input_callback = input_callback
start(cb) ==
    /\ cpc = "idle"
    /\ input_callback' = cb
    /\ UNCHANGED <<stream_sid, application_state, loopVars, handlerVars,
                   wireVars, ghostVars, cpc>>

stop_l27 ==
    /\ cpc = "idle"
    /\ input_callback' = None
    /\ cpc' = "stop_l28"
    /\ UNCHANGED <<stream_sid, application_state, loopVars, handlerVars,
                   wireVars, ghostVars>>

stop_l28 ==
    /\ cpc = "stop_l28"
    /\ stream_sid' = None
    /\ cpc' = "idle"
    /\ stopped' = TRUE
    /\ UNCHANGED <<input_callback, application_state, loopVars, handlerVars,
                   wireVars, startProcessed, ignoredAt>>

\* run_coroutine_threadsafe: the coroutine is appended to the loop's queue and
\* the call returns; nothing is awaited.
Schedule(kind, audio) ==
    /\ cpc = "idle"
    /\ Len(tasks) < MaxCalls
    /\ tasks' = Append(tasks, NewTask(kind, audio))
    /\ loop_ready' = Append(loop_ready, Len(tasks) + 1)
    /\ UNCHANGED <<sessionVars, current, handlerVars, wireVars, ghostVars,
                   application_state, cpc>>

\* The same call made to wait for the coroutine (future.result()).
output_blocking(audio) ==
    /\ \A t \in 1..Len(tasks) : tasks[t].pc = "done"
    /\ Schedule("media", audio)

output(audio) ==
    Schedule("media", audio)

interrupt ==
    Schedule("clear", <<>>)

\* ------------------------------------------------- the event loop
\* A loop that starts the coroutine scheduled last.
NextReadyLast == loop_ready[Len(loop_ready)]

\* The loop takes the coroutine at the head of its queue and starts it.
NextReady == Head(loop_ready)

run_task ==
    /\ LoopIdle
    /\ loop_ready # <<>>
    /\ current' = NextReady
    /\ loop_ready' = SelectSeq(loop_ready, LAMBDA t : t # NextReady)
    /\ tasks' = [tasks EXCEPT ![NextReady].pc = "check_sid"]
    /\ UNCHANGED <<sessionVars, handlerVars, wireVars, ghostVars, application_state,
                   cpc>>

Running(kind, pc) ==
    /\ current # 0
    /\ tasks[current].kind = kind
    /\ tasks[current].pc = pc

taskFrame == <<sessionVars, loop_ready, handlerVars, wireVars, ghostVars,
               application_state, cpc>>

\* The test left out.
StreamAlways == TRUE

\* Sending gated on the consumer as well.
StreamAndConsumer == Truthy(stream_sid) /\ Truthy(input_callback)

\* if self.stream_sid (lines 42 and 72)
StreamPresent == Truthy(stream_sid)

\* send_audio_to_twilio, line 42: if self.stream_sid
send_audio_l42 ==
    /\ Running("media", "check_sid")
    /\ IF StreamPresent
       THEN /\ tasks' = [tasks EXCEPT ![current].pc = "build"]
            /\ current' = current
       ELSE Finish(current, "no_stream")
    /\ UNCHANGED taskFrame

\* The frame built with the stream id of the call that scheduled it.
send_audio_l44_at_call ==
    /\ Running("media", "build")
    /\ tasks' = [tasks EXCEPT
            ![current].pc = "check_conn",
            ![current].msg = [event |-> "media",
                              streamSid |-> TagSid(tasks[current].audio),
                              media |-> [payload |-> b64encode(tasks[current].audio)]]]
    /\ UNCHANGED <<current, taskFrame>>

\* The envelope built with the audio as it came, not encoded.
send_audio_l44_raw ==
    /\ Running("media", "build")
    /\ tasks' = [tasks EXCEPT
            ![current].pc = "check_conn",
            ![current].msg = [event |-> "media", streamSid |-> stream_sid,
                              media |-> [payload |-> tasks[current].audio]]]
    /\ UNCHANGED <<current, taskFrame>>

\* lines 44-49: the payload is encoded and the envelope built; stream_sid is
\* read again.
send_audio_l44 ==
    /\ Running("media", "build")
    /\ tasks' = [tasks EXCEPT
            ![current].pc = "check_conn",
            ![current].msg = [event |-> "media", streamSid |-> stream_sid,
                              media |-> [payload |-> b64encode(tasks[current].audio)]]]
    /\ UNCHANGED <<current, taskFrame>>

\* The send made whatever the connection state.
SendAlways(t) ==
    /\ sent' = Append(sent, tasks[t].msg)
    /\ sent_by' = Append(sent_by, t)
    /\ tasks' = [tasks EXCEPT ![t].pc = "await", ![t].msg = NoFrame,
                              ![t].connAtCall = "unset"]

\* lines 55-59: the connection state is read and, when CONNECTED, the text is
\* handed to websocket.send_text, where the coroutine awaits.
SendOrSkip(t) ==
    IF application_state = "CONNECTED"
    THEN /\ sent' = Append(sent, tasks[t].msg)
         /\ sent_by' = Append(sent_by, t)
         /\ tasks' = [tasks EXCEPT ![t].pc = "await", ![t].msg = NoFrame,
                                   ![t].connAtCall = "unset"]
    ELSE /\ tasks' = [tasks EXCEPT ![t].pc = "done", ![t].msg = NoFrame,
                                   ![t].result = "not_connected"]
         /\ UNCHANGED wireVars

send_audio_l55 ==
    /\ Running("media", "check_conn")
    /\ SendOrSkip(current)
    /\ current' = 0
    /\ UNCHANGED <<sessionVars, loop_ready, handlerVars, ghostVars, application_state,
                   cpc>>

\* What the awaited websocket.send_text does: it returns, or raises
\* WebSocketDisconnect, a RuntimeError, or some other Exception.
SendOutcomes == {"returned", "WebSocketDisconnect", "RuntimeError", "Exception"}

Awaiting(t, kind) ==
    /\ LoopIdle
    /\ t \in 1..Len(tasks)
    /\ tasks[t].kind = kind
    /\ tasks[t].pc = "await"

\* lines 57, 61-66: every outcome of the send ends the coroutine normally.
send_audio_resume(t, outcome) ==
    /\ Awaiting(t, "media")
    /\ Finish(t, IF outcome = "returned" THEN "sent" ELSE "caught")
    /\ UNCHANGED taskFrame

\* send_clear_message_to_twilio, line 72: if self.stream_sid
send_clear_l72 ==
    /\ Running("clear", "check_sid")
    /\ IF StreamPresent
       THEN /\ tasks' = [tasks EXCEPT ![current].pc = "build"]
            /\ current' = current
       ELSE Finish(current, "no_stream")
    /\ UNCHANGED taskFrame

\* line 73: the envelope is built; stream_sid is read again.
send_clear_l73 ==
    /\ Running("clear", "build")
    /\ tasks' = [tasks EXCEPT
            ![current].pc = "check_conn",
            ![current].msg = [event |-> "clear", streamSid |-> stream_sid]]
    /\ UNCHANGED <<current, taskFrame>>

\* lines 75-76
send_clear_l75 ==
    /\ Running("clear", "check_conn")
    /\ SendOrSkip(current)
    /\ current' = 0
    /\ UNCHANGED <<sessionVars, loop_ready, handlerVars, ghostVars, application_state,
                   cpc>>

\* lines 77-78: only WebSocketDisconnect and RuntimeError are caught; any
\* other exception leaves the coroutine and ends in its future.
send_clear_resume(t, outcome) ==
    /\ Awaiting(t, "clear")
    /\ Finish(t, CASE outcome = "returned" -> "sent"
                    [] outcome \in {"WebSocketDisconnect", "RuntimeError"} -> "caught"
                    [] OTHER -> "escaped")
    /\ UNCHANGED taskFrame

\* ------------------------------------------------- handle_twilio_message
\* What one call of handle_twilio_message did with a media envelope: its
\* argument, the value of input_callback its line 84 read, and how the call
\* ended: "returned", or the exception it raised to its caller.
Handled(data, cb84, result) == [data |-> data, cb84 |-> cb84, result |-> result]

HasKey(d, k) == k \in DOMAIN d

\* The call ends and its locals with it.
Return ==
    /\ hpc' = "idle"
    /\ hdata' = NoData
    /\ audio_data' = <<>>

Raise(exception) ==
    /\ handled' = [handled EXCEPT ![Len(handled)].result = exception]
    /\ raised' = exception
    /\ Return

\* The test left out.
ConsumerAlways == TRUE

\* and self.input_callback (line 84)
ConsumerRegistered == Truthy(input_callback)

\* A stop envelope taken as the end of the stream.
ignore_event_clearing == stream_sid' = None

\* lines 82 and 84: neither branch is taken, nothing is assigned.
ignore_event == stream_sid' = stream_sid

\* lines 81-84, up to the test of self.input_callback. A start envelope
\* assigns stream_sid (KeyError when start.streamSid is absent); a media
\* envelope goes on when a consumer is registered; anything else returns.
handle_twilio_message(data) ==
    /\ LoopIdle
    /\ IF data.event = "start" THEN
          /\ IF HasKey(data, "start") /\ HasKey(data.start, "streamSid")
             THEN /\ stream_sid' = data.start.streamSid
                  /\ startProcessed' = TRUE
                  /\ stopped' = FALSE
                  /\ raised' = "nothing"
                  /\ UNCHANGED ignoredAt
             ELSE /\ raised' = "KeyError"
                  /\ UNCHANGED <<stream_sid, ghostVars>>
          /\ UNCHANGED <<handled, hpc, hdata>>
       ELSE IF data.event = "media" THEN
          /\ Len(handled) < MaxMedia
          /\ IF ConsumerRegistered
             THEN /\ handled' = Append(handled, Handled(data, input_callback, "running"))
                  /\ hpc' = "decode"
                  /\ hdata' = data
             ELSE /\ handled' = Append(handled, Handled(data, input_callback, "returned"))
                  /\ UNCHANGED <<hpc, hdata>>
          /\ raised' = "nothing"
          /\ UNCHANGED <<stream_sid, ghostVars>>
       ELSE /\ raised' = "nothing"
            /\ ignore_event
            /\ ignoredAt' = IF /\ ignoredAt = Never
                               /\ stream_sid # None /\ input_callback # None
                               /\ application_state = "CONNECTED"
                            THEN [sent |-> Len(sent), calls |-> Len(calls)]
                            ELSE ignoredAt
            /\ UNCHANGED <<startProcessed, stopped, handled, hpc, hdata>>
    /\ UNCHANGED <<input_callback, loopVars, audio_data, calls, wireVars,
                   application_state, cpc>>

\* lines 86-88: data["media"]["payload"] (KeyError when absent) is decoded
\* (binascii.Error when it is not valid base64).
handle_l86 ==
    /\ hpc = "decode"
    /\ IF ~(HasKey(hdata, "media") /\ HasKey(hdata.media, "payload"))
       THEN Raise("KeyError")
       ELSE IF ~b64decode(hdata.media.payload).ok
       THEN Raise("binascii.Error")
       ELSE /\ audio_data' = b64decode(hdata.media.payload).bytes
            /\ hpc' = "call"
            /\ UNCHANGED <<handled, raised, hdata>>
    /\ UNCHANGED <<sessionVars, loopVars, calls, wireVars, ghostVars,
                   application_state, cpc>>

\* The invocation made on the consumer that line 84 saw.
handle_l91_stale ==
    /\ hpc = "call"
    /\ calls' = Append(calls, [callback |-> handled[Len(handled)].cb84,
                               audio |-> audio_data,
                               envelope |-> Len(handled)])
    /\ handled' = [handled EXCEPT ![Len(handled)].result = "returned"]
    /\ Return
    /\ UNCHANGED <<raised, sessionVars, loopVars, wireVars, ghostVars,
                   application_state, cpc>>

\* The invocation recorded ahead of the earlier ones.
handle_l91_prepend ==
    /\ hpc = "call"
    /\ IF input_callback = None
       THEN Raise("TypeError") /\ UNCHANGED calls
       ELSE /\ calls' = <<[callback |-> input_callback,
                           audio |-> audio_data,
                           envelope |-> Len(handled)]>> \o calls
            /\ handled' = [handled EXCEPT ![Len(handled)].result = "returned"]
            /\ Return
            /\ UNCHANGED raised
    /\ UNCHANGED <<sessionVars, loopVars, wireVars, ghostVars,
                   application_state, cpc>>

\* line 91: self.input_callback is read again and called (TypeError when it
\* is None by now).
handle_l91 ==
    /\ hpc = "call"
    /\ IF input_callback = None
       THEN Raise("TypeError") /\ UNCHANGED calls
       ELSE /\ calls' = Append(calls, [callback |-> input_callback,
                                        audio |-> audio_data,
                                        envelope |-> Len(handled)])
            /\ handled' = [handled EXCEPT ![Len(handled)].result = "returned"]
            /\ Return
            /\ UNCHANGED raised
    /\ UNCHANGED <<sessionVars, loopVars, wireVars, ghostVars,
                   application_state, cpc>>

\* ------------------------------------------------- the transport
\* The websocket's application_state changes between two steps of the loop
\* (the websocket's own send, receive, accept and close set it, on the loop):
\* a connecting websocket is accepted or closed, a connected one is closed.
application_state_change(s) ==
    /\ LoopIdle
    /\ \/ application_state = "CONNECTING" /\ s \in {"CONNECTED", "DISCONNECTED"}
       \/ application_state = "CONNECTED" /\ s = "DISCONNECTED"
    /\ application_state' = s
    /\ UNCHANGED <<sessionVars, loopVars, handlerVars, wireVars, ghostVars,
                   cpc>>

\* ------------------------------------------------------------ specification
Next ==
    \/ \E cb \in Callbacks : start(cb)
    \/ stop_l27
    \/ stop_l28
    \/ \E audio \in Audio : output(audio)
    \/ interrupt
    \/ run_task
    \/ send_audio_l42
    \/ send_audio_l44
    \/ send_audio_l55
    \/ \E t \in 1..Len(tasks), o \in SendOutcomes : send_audio_resume(t, o)
    \/ send_clear_l72
    \/ send_clear_l73
    \/ send_clear_l75
    \/ \E t \in 1..Len(tasks), o \in SendOutcomes : send_clear_resume(t, o)
    \/ \E data \in Envelopes : handle_twilio_message(data)
    \/ handle_l86
    \/ handle_l91
    \/ \E s \in WebSocketStates : application_state_change(s)

Spec == Init /\ [][Next]_vars

\* The outbound path alone: the caller's stop, output and interrupt, the
\* scheduled coroutines, the transport's state, and the well-formed envelopes
\* that are not media.
LifecycleEnvelopes ==
    {d \in Envelopes : d.event = "stop" \/ (d.event = "start" /\ HasKey(d.start, "streamSid"))}

NextOut ==
    \/ stop_l27
    \/ stop_l28
    \/ \E audio \in Audio : output(audio)
    \/ interrupt
    \/ run_task
    \/ send_audio_l42
    \/ send_audio_l44
    \/ send_audio_l55
    \/ \E t \in 1..Len(tasks), o \in SendOutcomes : send_audio_resume(t, o)
    \/ send_clear_l72
    \/ send_clear_l73
    \/ send_clear_l75
    \/ \E t \in 1..Len(tasks), o \in SendOutcomes : send_clear_resume(t, o)
    \/ \E data \in LifecycleEnvelopes : handle_twilio_message(data)
    \/ \E s \in WebSocketStates : application_state_change(s)

SpecOut == Init /\ [][NextOut]_vars

\* The inbound path alone: the caller's start and stop and every envelope.
NextIn ==
    \/ \E cb \in Callbacks : start(cb)
    \/ stop_l27
    \/ stop_l28
    \/ \E data \in Envelopes : handle_twilio_message(data)
    \/ handle_l86
    \/ handle_l91

SpecIn == Init /\ [][NextIn]_vars

\* The two paths joined at the codec: the payload of a media frame sent comes
\* back as the payload of a media envelope.  One stream, one consumer, and
\* sends that complete: the codec is what varies.
loopback(i) ==
    /\ sent[i].event = "media"
    /\ handle_twilio_message([event |-> "media",
                              media |-> [payload |-> sent[i].media.payload]])

NextLoopback ==
    \/ start("cb1")
    \/ handle_twilio_message([event |-> "start", start |-> [streamSid |-> "CA1"]])
    \/ \E audio \in CodecAudio : output(audio)
    \/ run_task
    \/ send_audio_l42
    \/ send_audio_l44
    \/ send_audio_l55
    \/ \E t \in 1..Len(tasks) : send_audio_resume(t, "returned")
    \/ \E i \in 1..Len(sent) : loopback(i)
    \/ handle_l86
    \/ handle_l91

SpecLoopback == Init /\ [][NextLoopback]_vars

\* Both paths under the caller's start and stop and the transport's start
\* envelopes, on a connected websocket, with one consumer, one audio
\* value each way and sends that complete: the session state is what varies.
InitConnected == Init /\ application_state = "CONNECTED"

StartEnvelope(s) == [event |-> "start", start |-> [streamSid |-> s]]

DuplexEnvelopes ==
    {StartEnvelope(s) : s \in StreamSids}
    \cup {[event |-> "media", media |-> [payload |-> AQI_pad]]}

NextDuplex ==
    \/ start("cb1")
    \/ stop_l27
    \/ stop_l28
    \/ output(<<255>>)
    \/ run_task
    \/ send_audio_l42
    \/ send_audio_l44
    \/ send_audio_l55
    \/ \E t \in 1..Len(tasks) : send_audio_resume(t, "returned")
    \/ \E data \in DuplexEnvelopes : handle_twilio_message(data)
    \/ handle_l86
    \/ handle_l91

SpecDuplex == InitConnected /\ [][NextDuplex]_vars

\* Both paths under repeated registrations and repeated start envelopes, with
\* no stop() call.
NextOverwrite ==
    \/ \E cb \in Callbacks : start(cb)
    \/ output(<<255>>)
    \/ run_task
    \/ send_audio_l42
    \/ send_audio_l44
    \/ send_audio_l55
    \/ \E t \in 1..Len(tasks) : send_audio_resume(t, "returned")
    \/ \E data \in DuplexEnvelopes : handle_twilio_message(data)
    \/ handle_l86
    \/ handle_l91

SpecOverwrite == InitConnected /\ [][NextOverwrite]_vars

\* Both paths with the envelopes the handler has no branch for, and no stop()
\* call.
IgnoredEnvelopes == {[event |-> "stop"], [event |-> "mark"]}

NextTransportStop ==
    \/ start("cb1")
    \/ output(<<255>>)
    \/ interrupt
    \/ run_task
    \/ send_audio_l42
    \/ send_audio_l44
    \/ send_audio_l55
    \/ \E t \in 1..Len(tasks) : send_audio_resume(t, "returned")
    \/ send_clear_l72
    \/ send_clear_l73
    \/ send_clear_l75
    \/ \E t \in 1..Len(tasks) : send_clear_resume(t, "returned")
    \/ \E data \in DuplexEnvelopes \cup IgnoredEnvelopes : handle_twilio_message(data)
    \/ handle_l86
    \/ handle_l91

SpecTransportStop == InitConnected /\ [][NextTransportStop]_vars

\* The outbound path with each output() call passing audio that names the
\* stream id current at the call, under stop() and start envelopes.
NextBinding ==
    \/ stop_l27
    \/ stop_l28
    \/ output(CallTag(stream_sid))
    \/ run_task
    \/ send_audio_l42
    \/ send_audio_l44
    \/ send_audio_l55
    \/ \E t \in 1..Len(tasks) : send_audio_resume(t, "returned")
    \/ \E s \in StreamSids : handle_twilio_message(StartEnvelope(s))

SpecBinding == InitConnected /\ [][NextBinding]_vars

\* ================================================================== claims
Tasks == 1..Len(tasks)
FramesOf(t) == {i \in 1..Len(sent) : sent_by[i] = t}
CallsFor(e) == {i \in 1..Len(calls) : calls[i].envelope = e}

\* C1: as long as no start envelope has been processed, nothing has been
\* handed to the websocket, whatever output and interrupt calls were made and
\* whatever the connection state.
C1_NoStreamNoSend == ~startProcessed => sent = <<>>

C1_Witness ==
    /\ ~startProcessed
    /\ application_state = "CONNECTED"
    /\ \E t \in Tasks : tasks[t].kind = "media" /\ tasks[t].result = "no_stream"
    /\ \E t \in Tasks : tasks[t].kind = "clear" /\ tasks[t].result = "no_stream"

\* C2: from the return of stop() to the next processed start envelope, no
\* media frame is handed to the websocket.
C2_NoAudioAfterStop ==
    [][(stopped /\ Len(sent') > Len(sent)) => sent'[Len(sent')].event # "media"]_vars

\* C3: a step of a scheduled task taken while application_state is not
\* CONNECTED hands nothing to the websocket, and the task that reads a state
\* other than CONNECTED at its send ends there, normally, without a send; the
\* state that counts is the one at that step, not the one at the call.
C3_DisconnectedNoSend ==
    [][/\ application_state # "CONNECTED" => sent' = sent
       /\ \A t \in Tasks :
            (tasks[t].pc = "check_conn" /\ tasks'[t].pc # "check_conn"
             /\ application_state # "CONNECTED")
            => /\ tasks'[t].pc = "done"
               /\ tasks'[t].result = "not_connected"
               /\ FramesOf(t)' = {}
               /\ cpc' = cpc]_vars

C3_Witness ==
    /\ Truthy(stream_sid)
    /\ \E t \in Tasks :
         /\ tasks[t].kind = "media"
         /\ tasks[t].result = "not_connected"
         /\ tasks[t].connAtCall = "CONNECTED"
         /\ FramesOf(t) = {}
    /\ \E t \in Tasks :
         /\ tasks[t].kind = "clear"
         /\ tasks[t].result = "not_connected"

\* C4: whenever the caller's thread is between two calls, output and
\* interrupt can be made, whatever the stream id, the connection state and
\* the sends pending or suspended; the call only schedules a coroutine.
C4_NonBlockingDispatch ==
    (cpc = "idle" /\ Len(tasks) < MaxCalls)
    => /\ ENABLED (\E audio \in Audio : output(audio))
       /\ ENABLED interrupt

C4_Witness ==
    /\ cpc = "idle"
    /\ Len(tasks) < MaxCalls
    /\ \E t \in Tasks : tasks[t].pc = "await" /\ t = Len(tasks)
    /\ ENABLED (\E audio \in Audio : output(audio))

\* Every frame handed to the websocket comes from one call, is of that call's
\* kind, carries the base64 of its audio, and is the call's only frame; the
\* calls with a frame are those that reached the send.
C5_FramesOfCalls ==
    /\ \A i \in 1..Len(sent) :
         /\ sent_by[i] \in Tasks
         /\ sent[i].event = tasks[sent_by[i]].kind
         /\ sent[i].event = "media"
            => /\ sent[i].media.payload = b64encode(tasks[sent_by[i]].audio)
               /\ tasks[sent_by[i]].audio = <<1, 2>>
                  => sent[i].media.payload = AQI_pad
    /\ \A t \in Tasks :
         /\ Cardinality(FramesOf(t)) <= 1
         /\ (tasks[t].pc = "await" \/ tasks[t].result \in {"sent", "caught", "escaped"})
            <=> FramesOf(t) # {}

\* A task that finds a stream id goes on, one that reads CONNECTED hands one
\* frame, and a frame handed over while a stream id is set carries it.
C5_Step ==
    /\ \A t \in Tasks :
         /\ (tasks[t].pc = "check_sid" /\ tasks'[t].pc # "check_sid" /\ Truthy(stream_sid))
            => tasks'[t].pc = "build"
         /\ (tasks[t].pc = "check_conn" /\ tasks'[t].pc # "check_conn"
             /\ application_state = "CONNECTED")
            => /\ Len(sent') = Len(sent) + 1
               /\ sent_by'[Len(sent')] = t
    /\ (Len(sent') > Len(sent) /\ Truthy(stream_sid))
       => sent'[Len(sent')].streamSid = stream_sid

\* C5: with a stream id set by a start envelope and the transport connected,
\* each output(b) hands exactly one frame {media, that stream id, base64(b)}
\* and each interrupt() exactly one frame {clear, that stream id}; no call
\* hands more than one frame and no frame is handed without a call.
C5_ExactlyOneFrame == [][C5_FramesOfCalls' /\ C5_Step]_vars

C5_Witness ==
    /\ Len(sent) = 2
    /\ sent[1] = [event |-> "media", streamSid |-> "CA1", media |-> [payload |-> AQI_pad]]
    /\ sent[2] = [event |-> "clear", streamSid |-> "CA1"]
    /\ \A t \in Tasks : tasks[t].result = "sent"
    /\ ~stopped

ValidMedia(d) == HasKey(d.media, "payload") /\ b64decode(d.media.payload).ok

\* C6: a media envelope handled while no consumer is registered invokes
\* nothing, then or later, and the call returns; an envelope invokes the
\* consumer at most once, with the decoded bytes of its payload; and a call
\* that found a consumer and returned has invoked it exactly once.

C6_ConsumerGating ==
    /\ \A i \in 1..Len(calls) : calls[i].envelope \in 1..Len(handled)
    /\ \A e \in 1..Len(handled) :
         /\ handled[e].cb84 = None
            => CallsFor(e) = {} /\ handled[e].result = "returned"
         /\ Cardinality(CallsFor(e)) <= 1
         /\ \A i \in CallsFor(e) :
              /\ calls[i].callback \in Callbacks
              /\ ValidMedia(handled[e].data)
              /\ calls[i].audio = b64decode(handled[e].data.media.payload).bytes
              /\ handled[e].data.media.payload = AQI_pad => calls[i].audio = <<1, 2>>
         /\ (handled[e].cb84 # None /\ handled[e].result = "returned")
            => Cardinality(CallsFor(e)) = 1

C6_Witness ==
    /\ Len(handled) = 2
    /\ handled[1].data = handled[2].data
    /\ handled[1].cb84 = None
    /\ handled[2].cb84 = "cb1"
    /\ handled[2].result = "returned"
    /\ Len(calls) = 1
    /\ calls[1] = [callback |-> "cb1", audio |-> <<1, 2>>, envelope |-> 2]

\* C7: handling a media envelope whose payload is not valid base64 invokes
\* no consumer and does not raise.
C7_DecodeFailureContained ==
    \A e \in 1..Len(handled) :
        (HasKey(handled[e].data.media, "payload")
         /\ ~b64decode(handled[e].data.media.payload).ok)
        => CallsFor(e) = {} /\ handled[e].result \in {"running", "returned"}

\* C8: handle_twilio_message raises no KeyError for an envelope that lacks
\* start.streamSid or media.payload.
C8_MalformedSkipped == raised # "KeyError"

\* C9: no exception of the send leaves the coroutine that made it.
C9_FailuresCaughtInTask == \A t \in Tasks : tasks[t].result # "escaped"

\* C10: the coroutines start in the order they were scheduled, and their
\* frames are handed to the websocket in that order.
C10_OutboundOrder ==
    /\ \A t1, t2 \in Tasks :
         (t1 < t2 /\ tasks[t2].pc # "ready") => tasks[t1].pc # "ready"
    /\ \A i, j \in 1..Len(sent) : i < j => sent_by[i] < sent_by[j]

C10_Witness ==
    /\ Len(sent) = 2
    /\ sent[1].event = "media"
    /\ sent[2].event = "clear"
    /\ tasks[sent_by[1]].pc = "await"
    /\ tasks[sent_by[2]].pc = "await"

\* C11: the session state is written on the transport's context only, so
\* while the loop is inside a coroutine (a scheduled task between its start
\* and its await, or handle_twilio_message between its lines) no other
\* context changes stream_sid or input_callback.
C11_OwnedByLoop == [][~LoopIdle => sessionVars' = sessionVars]_vars

\* C12: stop() leaves stream_sid and input_callback cleared, and from its
\* return to the next processed start envelope no task hands a frame to the
\* websocket and, unless a consumer is registered again, no consumer is
\* invoked.
C12_InertAfterStop ==
    [][/\ (cpc = "stop_l28" /\ cpc' = "idle")
          => (stream_sid' = None /\ input_callback' = None)
       /\ stopped => sent' = sent
       /\ (stopped /\ input_callback = None) => calls' = calls]_vars

\* C14: every frame handed to the websocket carries a stream id, one that a
\* start envelope set.
C14_FrameCarriesStreamSid ==
    \A i \in 1..Len(sent) : sent[i].streamSid \in StreamSids

\* C17: handling a media envelope never calls an absent consumer: no call of
\* handle_twilio_message ends in the TypeError of calling None.
C17_NoAbsentConsumerCall ==
    /\ raised # "TypeError"
    /\ \A e \in 1..Len(handled) : handled[e].result # "TypeError"

\* The valid media envelopes handled so far, in arrival order, and their
\* decoded payloads; the audio the consumer was invoked with, in order.
ValidHandled == SelectSeq(handled, LAMBDA h : ValidMedia(h.data))
ExpectedAudio ==
    [i \in 1..Len(ValidHandled) |-> b64decode(ValidHandled[i].data.media.payload).bytes]
DeliveredAudio == [i \in 1..Len(calls) |-> calls[i].audio]
ConsumerStayed ==
    \A e \in 1..Len(handled) :
        handled[e].cb84 # None /\ handled[e].result \notin {"running", "TypeError"}

\* C15: the consumer is invoked in the arrival order of the envelopes, each
\* invocation inside the handling of its own envelope and before the next
\* envelope is handled; when a consumer stayed registered through every
\* envelope handled, the audio delivered is exactly the decoded payloads of
\* the valid media envelopes, in arrival order.
C15_InboundOrder ==
    /\ \A i, j \in 1..Len(calls) : i < j => calls[i].envelope < calls[j].envelope
    /\ \A e \in 1..Len(handled) : e < Len(handled) => handled[e].result # "running"
    /\ \A i \in 1..Len(calls) :
         handled[calls[i].envelope].result = "returned" /\ calls[i].envelope <= Len(handled)
    /\ ConsumerStayed => DeliveredAudio = ExpectedAudio

C15_Witness ==
    /\ ConsumerStayed
    /\ DeliveredAudio = <<(<<255>>), (<<1, 2>>)>>

\* The frames whose payload an envelope carried back.
FramesBack(e) ==
    {i \in 1..Len(sent) : /\ sent[i].event = "media"
                          /\ handled[e].data.media.payload = sent[i].media.payload}

\* C13: decoding the encoding of a byte sequence gives the byte sequence
\* back; and a media envelope that carries back the payload of a frame
\* output(b) produced never fails to decode, and when a consumer was
\* registered for it the consumer is invoked once, with exactly b.
C13_RoundTrip ==
    /\ \A b \in CodecAudio \cup Audio : b64decode(b64encode(b)) = [ok |-> TRUE, bytes |-> b]
    /\ \A e \in 1..Len(handled) : \A i \in FramesBack(e) :
          /\ handled[e].result # "binascii.Error"
          /\ (handled[e].cb84 # None /\ handled[e].result # "running") =>
                /\ handled[e].result = "returned"
                /\ Cardinality(CallsFor(e)) = 1
                /\ \A c \in CallsFor(e) : calls[c].audio = tasks[sent_by[i]].audio

C13_Witness ==
    /\ Len(handled) = 2
    /\ \A e \in 1..Len(handled) : FramesBack(e) # {} /\ handled[e].result = "returned"
    /\ DeliveredAudio = <<(<<251, 255, 190, 1>>), (<<0>>)>>

\* C16: a start envelope sets the stream id to its own whatever the id was,
\* and start(input_callback) sets the consumer to its own whatever it was;
\* nothing else changes either while stop() is not called; a frame is built
\* with, and handed to the websocket with, the stream id current at that
\* moment, and the consumer invoked is the one registered at that moment.
C16_StartOverwrites ==
    [][/\ \A s \in StreamSids :
            handle_twilio_message(StartEnvelope(s)) => stream_sid' = s
       /\ \A cb \in Callbacks : start(cb) => input_callback' = cb
       /\ stream_sid' # stream_sid =>
            \E s \in StreamSids : handle_twilio_message(StartEnvelope(s))
       /\ input_callback' # input_callback => \E cb \in Callbacks : start(cb)
       /\ send_audio_l44 => tasks'[current].msg.streamSid = stream_sid
       /\ Len(sent') > Len(sent) =>
            /\ sent' = Append(sent, tasks[current].msg)
            /\ sent'[Len(sent')].streamSid = stream_sid
       /\ Len(calls') > Len(calls) =>
            /\ Len(calls') = Len(calls) + 1
            /\ calls'[Len(calls')].callback = input_callback]_vars

C16_Witness ==
    /\ Len(sent) = 2
    /\ sent[1].streamSid = "CA1" /\ sent[2].streamSid = "CA2"
    /\ stream_sid = "CA2"
    /\ Len(calls) = 2
    /\ calls[1].callback = "cb1" /\ calls[2].callback = "cb2"
    /\ input_callback = "cb2"

\* C18: handling an envelope that is neither start nor media changes neither
\* the stream id nor the consumer, schedules and sends nothing and invokes
\* nothing; with no stop() call, a stream id or a consumer once set is never
\* cleared; so every frame handed to the websocket after such an envelope
\* carries a stream id, and every media envelope handled after it finds the
\* consumer.
C18_TransportStopIgnored ==
    [][/\ \A d \in IgnoredEnvelopes :
            handle_twilio_message(d) =>
                UNCHANGED <<sessionVars, loopVars, wireVars, calls, handled, hpc>>
       /\ stream_sid # None => stream_sid' # None
       /\ input_callback # None => input_callback' # None
       /\ (ignoredAt # Never /\ Len(sent') > Len(sent)) =>
            /\ sent'[Len(sent')].streamSid = stream_sid
            /\ stream_sid \in StreamSids
       /\ (ignoredAt # Never /\ Len(handled') > Len(handled)) =>
            handled'[Len(handled')].cb84 = input_callback /\ input_callback # None
       /\ (ignoredAt # Never /\ handle_l91) => Len(calls') = Len(calls) + 1]_vars

C18_Witness ==
    /\ ignoredAt # Never
    /\ stream_sid = "CA1"
    /\ \E i, j \in 1..Len(sent) :
          /\ i > ignoredAt.sent /\ j > ignoredAt.sent
          /\ sent[i] = [event |-> "media", streamSid |-> "CA1",
                        media |-> [payload |-> b64encode(<<255>>)]]
          /\ sent[j] = [event |-> "clear", streamSid |-> "CA1"]
    /\ \A i \in 1..Len(sent) : sent[i].streamSid = "CA1"
    /\ \E c \in 1..Len(calls) : c > ignoredAt.calls /\ calls[c].callback = "cb1"

\* C19: a call to output() binds no stream id and sends nothing; the
\* coroutine, when the loop runs it, goes on or returns by the stream id of
\* that moment and builds its frame with the stream id of that moment, which
\* is the frame handed to the websocket; a coroutine that found no stream id
\* has sent nothing, whatever the stream id was at its call.
C19_BoundAtExecution ==
    [][/\ Len(tasks') > Len(tasks) =>
            /\ tasks'[Len(tasks')].msg = NoFrame
            /\ tasks'[Len(tasks')].audio = CallTag(stream_sid)
            /\ sent' = sent
       /\ send_audio_l42 => ((tasks'[current].pc = "build") <=> (stream_sid # None))
       /\ send_audio_l44 => tasks'[current].msg.streamSid = stream_sid
       /\ Len(sent') > Len(sent) =>
            /\ sent' = Append(sent, tasks[current].msg)
            /\ sent_by' = Append(sent_by, current)
       /\ \A t \in Tasks : tasks[t].result = "no_stream" => FramesOf(t) = {}]_vars

\* The first call was made with no stream and its frame carries CA1; the
\* second was made during CA1 and its frame carries CA2.
C19_Witness ==
    /\ Len(tasks) = 2
    /\ TagSid(tasks[1].audio) = None /\ TagSid(tasks[2].audio) = "CA1"
    /\ Len(sent) = 2
    /\ sent_by = <<1, 2>>
    /\ sent[1].streamSid = "CA1" /\ sent[2].streamSid = "CA2"

\* C20: a start envelope sets the stream id and leaves the consumer as it
\* is; only start() registers a consumer; while none is registered no
\* invocation is made and a media envelope is dropped on arrival; and a
\* coroutine that finds a stream id goes on, builds its frame with the stream
\* id of that moment and hands that frame over, whether or not a consumer is
\* registered.
C20_AsymmetricRestart ==
    [][/\ \A s \in StreamSids :
            handle_twilio_message(StartEnvelope(s)) =>
                stream_sid' = s /\ input_callback' = input_callback
       /\ (input_callback = None /\ input_callback' # None) => start("cb1")
       /\ input_callback = None => calls' = calls
       /\ (input_callback = None /\ Len(handled') > Len(handled)) =>
            /\ handled'[Len(handled')].cb84 = None
            /\ handled'[Len(handled')].result = "returned"
            /\ hpc' = "idle"
       /\ (send_audio_l42 /\ stream_sid # None) => tasks'[current].pc = "build"
       /\ send_audio_l44 => tasks'[current].msg.streamSid = stream_sid
       /\ Len(sent') > Len(sent) => sent' = Append(sent, tasks[current].msg)]_vars

\* A media envelope was delivered, stop() then cleared the consumer and
\* returned, a start envelope with CA2 was processed after that, and now a
\* coroutine run since has built its frame with CA2 while a media envelope
\* has been dropped and no consumer is registered.
C20_Witness ==
    /\ cpc = "idle" /\ ~stopped
    /\ stream_sid = "CA2" /\ input_callback = None
    /\ Len(handled) = 2 /\ Len(calls) = 1
    /\ handled[1].cb84 = "cb1" /\ handled[1].result = "returned"
    /\ handled[2].cb84 = None /\ handled[2].result = "returned"
    /\ Len(sent) = 1 /\ sent[1].streamSid = "CA1"
    /\ current = 2 /\ tasks[2].pc = "check_conn" /\ tasks[2].msg.streamSid = "CA2"

====
